---- MODULE Spec2Model ----
(***************************************************************************)
(* novel-publication backend: the markdown parser (services/parser.py),    *)
(* the parse, publish, update and upload handlers (routers/novel.py), the  *)
(* file manager (services/file_manager.py) and the text cleaning service   *)
(* (services/text_strip_service.py).                                       *)
(*                                                                         *)
(* A Python str is modelled as a sequence of characters; a character is a  *)
(* one-character string, or the name of its code point ("U+4E2D") when it  *)
(* is not ASCII or is the backtick ("U+0060").                             *)
(***************************************************************************)
EXTENDS Integers, Sequences, FiniteSets, TLC

VARIABLES
    text,         \* the content of the file being parsed
    op,           \* the last handler that completed
    title,        \* raw_data["title"]
    chapterList,  \* PublicationData.chapterList returned by parse_novel
    stats,        \* raw_data["stats"]
    request,      \* request.data.chapterList of the last publish request
    published,    \* publish_data['chapterList'] sent by publish_novel
    source,       \* where text came from: "user", or the cleaning call whose
                  \* result it is
    options,      \* the options argument of the last smart_strip call
    out,          \* the str the last text_strip_service call returned
    raised,       \* whether the last text_strip_service call raised
    textStats,    \* the dict the last get_stats call returned
    strip_type,   \* the strip_type argument of the last strip_text call
    pc,           \* the statement of SaveSteps the update in progress is
                  \* at, 0 when no update is in progress
    data,         \* request.data of the last update request
    before,       \* the content of the target file when that request came
    backups,      \* the copies backup_file made in the backup directory, in
                  \* the order of their creation
    uploads,      \* the names of the uploaded files that were stored
    response,     \* the last response of the update and upload handlers
    calls,        \* the invocations of the core in flight, by caller
    frames,       \* the local text of each invocation, by frame
    instance      \* the attributes of the shared text_strip_service

vars == <<text, op, title, chapterList, stats, request, published,
          source, options, out, raised, textStats, strip_type,
          pc, data, before, backups, uploads, response,
          calls, frames, instance>>

\* the variables of the parse and publish handlers
parserVars == <<title, chapterList, stats, request, published>>

\* the variables of the calls of the text cleaning service
stripVars == <<source, options, out, raised, textStats, strip_type>>

\* the variables of the update and upload handlers
fileVars == <<pc, data, before, backups, uploads, response>>

\* the variables of the interleaved invocations
callVars == <<calls, frames, instance>>

----------------------------------------------------------------------------
(* Bounds of the model.                                                    *)

\* the largest number of lines of an input file
MaxLines == 3

\* the largest seq value a client writes into a chapter it sends
MaxSeq == 1

\* the largest number of pieces of a text given to the cleaning service
MaxPieces == 2

\* the number of files the backup directory takes
MaxBackups == 1

\* the number of invocations in flight at a time
MaxCalls == 2

----------------------------------------------------------------------------
(* Characters and the str methods the code uses.                           *)

NL == "\n"

\* the characters str.strip() trims and the regex class \s matches
Whitespace == {" ", "\t", "\n", "\r", "U+3000"}

RECURSIVE lstrip(_)
lstrip(s) ==
    IF s = <<>> THEN s
    ELSE IF Head(s) \in Whitespace THEN lstrip(Tail(s)) ELSE s

RECURSIVE rstrip(_)
rstrip(s) ==
    IF s = <<>> THEN s
    ELSE IF s[Len(s)] \in Whitespace THEN rstrip(SubSeq(s, 1, Len(s) - 1)) ELSE s

\* str.strip()
strip(s) == rstrip(lstrip(s))

\* str.startswith(p)
startswith(s, p) == Len(s) >= Len(p) /\ SubSeq(s, 1, Len(p)) = p

\* str.split(sep) for a one-character separator: always at least one piece
split(s, sep) ==
    LET \* the indices of the separators, in order
        at == SelectSeq([i \in 1..Len(s) |-> i], LAMBDA i : s[i] = sep)
        \* the k-th piece lies between these two indices
        from(k) == IF k = 1 THEN 0 ELSE at[k - 1]
        to(k) == IF k > Len(at) THEN Len(s) + 1 ELSE at[k]
    IN  [k \in 1..(Len(at) + 1) |-> SubSeq(s, from(k) + 1, to(k) - 1)]

\* sep.join(parts)
RECURSIVE join(_, _)
join(parts, sep) ==
    IF parts = <<>> THEN <<>>
    ELSE IF Len(parts) = 1 THEN parts[1]
    ELSE LET half == Len(parts) \div 2
         IN  join(SubSeq(parts, 1, half), sep) \o <<sep>>
                 \o join(SubSeq(parts, half + 1, Len(parts)), sep)

\* s with every character of the set cs deleted
remove_chars(s, cs) == SelectSeq(s, LAMBDA c : c \notin cs)

\* s without its leading run of characters of the set cs
RECURSIVE drop_leading(_, _)
drop_leading(s, cs) ==
    IF s = <<>> THEN s
    ELSE IF Head(s) \in cs THEN drop_leading(Tail(s), cs) ELSE s

----------------------------------------------------------------------------
(* services/parser.py: NovelParser                                         *)

\* the title returned when none is found
Placeholder == <<"U+672A", "U+547D", "U+540D", "U+4F5C", "U+54C1">>

\* None, and the empty str: the two falsy values a title variable can hold
NoneTitle == <<>>

\* re.sub(r'^#+\s*', '', line).strip()
heading_text(line) == strip(drop_leading(drop_leading(line, {"#"}), Whitespace))

\* first_heading without the test that excludes the lines starting with ##
RECURSIVE first_heading_any_level(_, _)
first_heading_any_level(lines, i) ==
    IF i > Len(lines) THEN NoneTitle
    ELSE LET line == strip(lines[i])
         IN  IF startswith(line, <<"#">>) /\ heading_text(line) # <<>>
             THEN heading_text(line)
             ELSE first_heading_any_level(lines, i + 1)

\* the for loop of extract_title from line i on: the title of the first
\* stripped line that starts with # but not with ## and has a non-empty
\* title, NoneTitle when the loop falls through
RECURSIVE first_heading(_, _)
first_heading(lines, i) ==
    IF i > Len(lines) THEN NoneTitle
    ELSE LET line == strip(lines[i])
         IN  IF /\ startswith(line, <<"#">>)
                /\ ~startswith(line, <<"#", "#">>)
                /\ heading_text(line) # <<>>
             THEN heading_text(line)
             ELSE first_heading(lines, i + 1)

\* legacy_title reading the second line (lines[1]) instead of the third
legacy_title_second_line(lines) ==
    IF Len(lines) >= 3
    THEN strip(remove_chars(strip(lines[2]), {"#"}))
    ELSE NoneTitle

\* the old-format fallback of extract_title: the third line without its #
legacy_title(lines) ==
    IF Len(lines) >= 3
    THEN strip(remove_chars(strip(lines[3]), {"#"}))
    ELSE NoneTitle

\* extract_title without its final return of the placeholder
extract_title_no_placeholder(content) ==
    LET lines == split(content, NL)
        found == first_heading(lines, 1)
    IN  IF found # NoneTitle THEN found ELSE legacy_title(lines)

extract_title(content) ==
    LET lines == split(content, NL)
        found == first_heading(lines, 1)
    IN  IF found # NoneTitle THEN found
        ELSE IF legacy_title(lines) # NoneTitle THEN legacy_title(lines)
        ELSE Placeholder

\* the length of the run of whitespace of line that starts at index i
RECURSIVE space_run(_, _)
space_run(line, i) ==
    IF i > Len(line) \/ line[i] \notin Whitespace THEN 0
    ELSE 1 + space_run(line, i + 1)

\* re.match(r'^##\s+(.+?)$', line) is not None
is_match(line) ==
    /\ Len(line) >= 4
    /\ line[1] = "#" /\ line[2] = "#"
    /\ line[3] \in Whitespace

\* match.group(1): what follows the whitespace after ##; when only
\* whitespace follows, \s+ gives its last character back to (.+?)
match_group(line) ==
    LET w == space_run(line, 3)
    IN  IF 2 + w < Len(line)
        THEN SubSeq(line, 3 + w, Len(line))
        ELSE <<line[Len(line)]>>

\* a chapter as extract_chapters appends it
raw_chapter(current_title, current_content) ==
    [chapterTitle |-> current_title,
     content |-> strip(join(current_content, NL))]

\* the for loop of extract_chapters from line i on
RECURSIVE scan_chapters(_, _, _, _, _)
scan_chapters(lines, i, chapters, current_title, current_content) ==
    IF i > Len(lines)
    THEN IF current_title # NoneTitle
         THEN Append(chapters, raw_chapter(current_title, current_content))
         ELSE chapters
    ELSE IF is_match(lines[i])
    THEN scan_chapters(lines, i + 1,
             IF current_title # NoneTitle
             THEN Append(chapters, raw_chapter(current_title, current_content))
             ELSE chapters,
             match_group(lines[i]), <<>>)
    ELSE IF current_title # NoneTitle
    THEN scan_chapters(lines, i + 1, chapters, current_title,
                       Append(current_content, lines[i]))
    ELSE scan_chapters(lines, i + 1, chapters, current_title, current_content)

\* extract_chapters without the append of the last chapter after the loop
extract_chapters_no_last(content) ==
    LET all == scan_chapters(split(content, NL), 1, <<>>, NoneTitle, <<>>)
    IN  SubSeq(all, 1, Len(all) - 1)

extract_chapters(content) ==
    scan_chapters(split(content, NL), 1, <<>>, NoneTitle, <<>>)

\* the characters calculate_stats deletes with its re.sub: # * [ ] ( ) and
\* the backtick
MarkupChars == {"#", "*", "U+0060", "[", "]", "(", ")"}

\* the characters calculate_stats deletes with its three str.replace calls
ReplacedChars == {" ", "\n", "\r"}

\* calculate_stats counting the chapter contents instead of the whole file
RECURSIVE contents_of(_)
contents_of(chapters) ==
    IF chapters = <<>> THEN <<>>
    ELSE Head(chapters).content \o contents_of(Tail(chapters))

calculate_stats_chapters_only(content, chapters) ==
    [wordCount |-> Len(remove_chars(remove_chars(contents_of(chapters),
                                                 MarkupChars), ReplacedChars)),
     chapterCount |-> Len(chapters)]

calculate_stats(content, chapters) ==
    [wordCount |-> Len(remove_chars(remove_chars(content, MarkupChars), ReplacedChars)),
     chapterCount |-> Len(chapters)]

\* parse_markdown with the stats taken before the last chapter is appended
parse_markdown_count_before_last(content) ==
    [title |-> extract_title(content),
     chapters |-> extract_chapters(content),
     stats |-> calculate_stats(content, extract_chapters_no_last(content))]

\* parse_markdown, on the content read from the file
parse_markdown(content) ==
    [title |-> extract_title(content),
     chapters |-> extract_chapters(content),
     stats |-> calculate_stats(content, extract_chapters(content))]

----------------------------------------------------------------------------
(* models/publication.py and routers/novel.py                              *)

\* Chapter.seq is Optional[int]: None is modelled as -1
NoneSeq == -1

\* Chapter(**{**ch, "seq": idx + 1}) for idx, ch in enumerate(chapters)
number_chapters(chapters) ==
    [idx \in 1..Len(chapters) |->
        [chapterTitle |-> chapters[idx].chapterTitle,
         content |-> chapters[idx].content,
         seq |-> idx]]

\* format_chapters keeping the seq a chapter came with
format_chapters_keep_seq(chapters) ==
    [index \in 1..Len(chapters) |->
        [chapterTitle |-> chapters[index].chapterTitle,
         content |-> chapters[index].content,
         seq |-> IF chapters[index].seq # NoneSeq
                 THEN chapters[index].seq ELSE index]]

\* the loop of publish_novel that builds formatted_chapters
format_chapters(chapters) ==
    [index \in 1..Len(chapters) |->
        [chapterTitle |-> chapters[index].chapterTitle,
         content |-> chapters[index].content,
         seq |-> index]]

----------------------------------------------------------------------------
(* services/text_strip_service.py: the characters and the regex engine     *)

\* ord(c) of the characters the model uses
CodePoint(c) ==
    CASE c = "\t" -> 9      [] c = "\n" -> 10     [] c = "\r" -> 13
      [] c = " " -> 32      [] c = "!" -> 33      [] c = "\"" -> 34
      [] c = "#" -> 35      [] c = "'" -> 39      [] c = "(" -> 40
      [] c = ")" -> 41      [] c = "*" -> 42      [] c = "+" -> 43
      [] c = "," -> 44      [] c = "-" -> 45      [] c = "." -> 46
      [] c = "/" -> 47      [] c = "1" -> 49      [] c = ":" -> 58
      [] c = "<" -> 60      [] c = ">" -> 62      [] c = "@" -> 64
      [] c = "[" -> 91      [] c = "]" -> 93      [] c = "_" -> 95
      [] c = "U+0060" -> 96 [] c = "a" -> 97      [] c = "b" -> 98
      [] c = "c" -> 99      [] c = "d" -> 100     [] c = "h" -> 104
      [] c = "p" -> 112     [] c = "s" -> 115     [] c = "t" -> 116
      [] c = "u" -> 117     [] c = "x" -> 120     [] c = "|" -> 124
      [] c = "U+200B" -> 8203    \* zero width space
      [] c = "U+201C" -> 8220    \* left double quotation mark
      [] c = "U+201D" -> 8221    \* right double quotation mark
      [] c = "U+3000" -> 12288   \* ideographic space
      [] c = "U+3002" -> 12290   \* ideographic full stop
      [] c = "U+300C" -> 12300   \* left corner bracket
      [] c = "U+300D" -> 12301   \* right corner bracket
      [] c = "U+4E2D" -> 20013   \* a CJK ideograph
      [] c = "U+FEFF" -> 65279   \* zero width no-break space
      [] c = "U+1F600" -> 128512 \* grinning face

\* the regex class \d
Digits == {"0", "1", "2", "3", "4", "5", "6", "7", "8", "9"}

Lower == {"a", "b", "c", "d", "e", "f", "g", "h", "i", "j", "k", "l", "m",
          "n", "o", "p", "q", "r", "s", "t", "u", "v", "w", "x", "y", "z"}

Upper == {"A", "B", "C", "D", "E", "F", "G", "H", "I", "J", "K", "L", "M",
          "N", "O", "P", "Q", "R", "S", "T", "U", "V", "W", "X", "Y", "Z"}

\* the regex class \w, which decides \b: the ASCII word characters and the
\* alphanumeric characters beyond ASCII
WordChars == Lower \cup Upper \cup Digits \cup {"_", "U+4E2D"}

\* the characters whose unicodedata.category starts with C
ControlChars == {"\t", "\n", "\r", "U+200B", "U+FEFF"}

\* the least index j >= i with s[j] in cs, 0 when there is none
first_index(s, i, cs) ==
    IF \E j \in i..Len(s) : s[j] \in cs
    THEN CHOOSE j \in i..Len(s) :
             s[j] \in cs /\ \A k \in i..(j - 1) : s[k] \notin cs
    ELSE 0

\* the length of the run of characters of cs that starts at index i
RECURSIVE run_length(_, _, _)
run_length(s, i, cs) ==
    IF i > Len(s) \/ s[i] \notin cs THEN 0
    ELSE 1 + run_length(s, i + 1, cs)

\* p occurs in s at index i
has_prefix(s, i, p) ==
    /\ i + Len(p) - 1 <= Len(s)
    /\ \A k \in 1..Len(p) : s[i + k - 1] = p[k]

\* the position i is the start of a line: what ^ matches under re.MULTILINE
at_line_start(s, i) == i = 1 \/ s[i - 1] = NL

----------------------------------------------------------------------------
(* services/text_strip_service.py: TextStripService                        *)

\* self.punctuation_patterns['chinese'], as the two adjacent literals of its
\* source line concatenate: the class holds the straight double quote
PunctuationChinese ==
    {"U+3002", "U+FF0C", "U+3001", "U+FF1B", "U+FF1A", "U+FF1F", "U+FF01",
     "\"", "U+FF08", "U+FF09", "U+300A", "U+300B", "U+3010", "U+3011",
     "U+2026", "U+2014"}

\* self.punctuation_patterns['english']
PunctuationEnglish ==
    {".", ",", ";", ":", "?", "!", "'", "\"", "(", ")", "[", "]", "{", "}",
     "<", ">"}

\* strip_basic
strip_basic(t) == IF t # <<>> THEN strip(t) ELSE <<>>

\* the match of \s+ at i
space_match(s, i) == run_length(s, i, Whitespace)

\* the match of <.*?> at i: up to the first > after i, which no newline
\* precedes
html_match(s, i) ==
    IF s[i] # "<" THEN 0
    ELSE LET j == first_index(s, i + 1, {">", NL})
         IN  IF j # 0 /\ s[j] = ">" THEN j - i + 1 ELSE 0

\* the match of ^#{1,6}\s+ at i
heading_match(s, i) ==
    LET k == run_length(s, i, {"#"})
        w == run_length(s, i + k, Whitespace)
    IN  IF at_line_start(s, i) /\ k >= 1 /\ k <= 6 /\ w >= 1 THEN k + w ELSE 0

\* the match at i of m{1,3}([^m]+)m{1,3} for the marker m: the opening run
\* cannot be longer than three, nor the text empty, and a closing marker
\* must follow; the closing run is taken up to three
emphasis_close(s, i, m) ==
    first_index(s, i + run_length(s, i, {m}), {m})

emphasis_match(s, i, m) ==
    LET r == run_length(s, i, {m})
        j == emphasis_close(s, i, m)
        c == run_length(s, j, {m})
    IN  IF r >= 1 /\ r <= 3 /\ i + r <= Len(s) /\ j # 0
        THEN (j - i) + (IF c > 3 THEN 3 ELSE c)
        ELSE 0

emphasis_repl(s, i, m) ==
    SubSeq(s, i + run_length(s, i, {m}), emphasis_close(s, i, m) - 1)

star_match(s, i) == emphasis_match(s, i, "*")
star_repl(s, i) == emphasis_repl(s, i, "*")
underscore_match(s, i) == emphasis_match(s, i, "_")
underscore_repl(s, i) == emphasis_repl(s, i, "_")

\* the match of \(([^\)]+)\) at i: its length, 0 when there is none
paren_match(s, i) ==
    IF i > Len(s) \/ s[i] # "(" THEN 0
    ELSE LET k == first_index(s, i + 1, {")"})
         IN  IF k >= i + 2 THEN k - i + 1 ELSE 0

\* the match of \[([^\]]+)\]\([^\)]+\) at i
link_match(s, i) ==
    IF s[i] # "[" THEN 0
    ELSE LET j == first_index(s, i + 1, {"]"})
         IN  IF j >= i + 2 /\ paren_match(s, j + 1) > 0
             THEN (j - i + 1) + paren_match(s, j + 1)
             ELSE 0

link_repl(s, i) == SubSeq(s, i + 1, first_index(s, i + 1, {"]"}) - 1)

\* the match of !\[([^\]]*)\]\([^\)]+\) at i
image_match(s, i) ==
    IF s[i] # "!" \/ i + 1 > Len(s) \/ s[i + 1] # "[" THEN 0
    ELSE LET j == first_index(s, i + 2, {"]"})
         IN  IF j # 0 /\ paren_match(s, j + 1) > 0
             THEN (j - i + 1) + paren_match(s, j + 1)
             ELSE 0

\* the match at i of three backticks, [^backtick]*, three backticks
fence_match(s, i) ==
    IF run_length(s, i, {"U+0060"}) < 3 THEN 0
    ELSE LET j == first_index(s, i + 3, {"U+0060"})
         IN  IF j # 0 /\ run_length(s, j, {"U+0060"}) >= 3
             THEN j + 3 - i
             ELSE 0

\* the match at i of a backtick, ([^backtick]+), a backtick
code_match(s, i) ==
    IF s[i] # "U+0060" \/ i + 1 > Len(s) \/ s[i + 1] = "U+0060" THEN 0
    ELSE LET j == first_index(s, i + 2, {"U+0060"})
         IN  IF j # 0 THEN j - i + 1 ELSE 0

code_repl(s, i) == SubSeq(s, i + 1, first_index(s, i + 2, {"U+0060"}) - 1)

\* the match at i of ^c\s+ for a character c of cs
marker_match(s, i, cs) ==
    LET w == run_length(s, i + 1, Whitespace)
    IN  IF at_line_start(s, i) /\ s[i] \in cs /\ w >= 1 THEN 1 + w ELSE 0

\* ^>\s+
quote_match(s, i) == marker_match(s, i, {">"})

\* ^[\*\-\+]\s+
bullet_match(s, i) == marker_match(s, i, {"*", "-", "+"})

\* ^\d+\.\s+
numbered_match(s, i) ==
    LET d == run_length(s, i, Digits)
        w == run_length(s, i + d + 1, Whitespace)
    IN  IF /\ at_line_start(s, i) /\ d >= 1
           /\ i + d <= Len(s) /\ s[i + d] = "." /\ w >= 1
        THEN d + 1 + w
        ELSE 0

\* ^[\*\-_]{3,}$
rule_match(s, i) ==
    LET r == run_length(s, i, {"*", "-", "_"})
    IN  IF /\ at_line_start(s, i) /\ r >= 3
           /\ (i + r > Len(s) \/ s[i + r] = NL)
        THEN r
        ELSE 0

\* strip_punctuation(text), types left at its default ['chinese', 'english']
strip_punctuation(t) ==
    remove_chars(remove_chars(t, PunctuationChinese), PunctuationEnglish)

\* the characters of the first re.sub of strip_invisible_chars
ZeroWidthChars == {"U+200B", "U+200C", "U+200D", "U+FEFF"}

\* strip_invisible_chars
strip_invisible_chars(t) ==
    remove_chars(remove_chars(t, ZeroWidthChars), ControlChars)

\* the character class of emoji_pattern: six ranges of code points
in_emoji_ranges(c) ==
    LET n == CodePoint(c)
    IN  \/ (n >= 128512 /\ n <= 128591)   \* 1F600-1F64F
        \/ (n >= 127744 /\ n <= 128511)   \* 1F300-1F5FF
        \/ (n >= 128640 /\ n <= 128767)   \* 1F680-1F6FF
        \/ (n >= 127456 /\ n <= 127487)   \* 1F1E0-1F1FF
        \/ (n >= 9986 /\ n <= 10160)      \* 2702-27B0
        \/ (n >= 9410 /\ n <= 127569)     \* 24C2-1F251

\* strip_emoji
RECURSIVE strip_emoji(_)
strip_emoji(t) ==
    IF t = <<>> THEN <<>>
    ELSE (IF in_emoji_ranges(Head(t)) THEN <<>> ELSE <<Head(t)>>)
             \o strip_emoji(Tail(t))

\* the match of https?://[^\s]+ at i
url_prefix(s, i) ==
    IF has_prefix(s, i, <<"h", "t", "t", "p", "s", ":", "/", "/">>) THEN 8
    ELSE IF has_prefix(s, i, <<"h", "t", "t", "p", ":", "/", "/">>) THEN 7
    ELSE 0

url_match(s, i) ==
    LET n == url_prefix(s, i)
        r == run_length(s, i + n, {s[j] : j \in 1..Len(s)} \ Whitespace)
    IN  IF n > 0 /\ r >= 1 THEN n + r ELSE 0

\* \b just before index i
word_boundary(s, i) ==
    (i - 1 >= 1 /\ i - 1 <= Len(s) /\ s[i - 1] \in WordChars)
        # (i >= 1 /\ i <= Len(s) /\ s[i] \in WordChars)

\* [A-Za-z0-9._%+-]
EmailLocalChars == Lower \cup Upper \cup Digits \cup {".", "_", "%", "+", "-"}

\* [A-Za-z0-9.-]
EmailDomainChars == Lower \cup Upper \cup Digits \cup {".", "-"}

\* [A-Z|a-z]
EmailTldChars == Lower \cup Upper \cup {"|"}

\* the ends (index after the last character) of the matches of
\* \b[A-Za-z0-9._%+-]+@[A-Za-z0-9.-]+\.[A-Z|a-z]{2,}\b that start at i, each
\* with the index q of the dot before its last part
email_ends(s, i) ==
    LET l == run_length(s, i, EmailLocalChars)
        at == i + l
        d == run_length(s, at + 1, EmailDomainChars)
    IN  IF ~(word_boundary(s, i) /\ l >= 1 /\ at <= Len(s) /\ s[at] = "@")
        THEN {}
        ELSE {<<q, e>> \in ((at + 2)..(at + d)) \X (1..(Len(s) + 1)) :
                 /\ s[q] = "."
                 /\ e >= q + 3
                 /\ e - (q + 1) <= run_length(s, q + 1, EmailTldChars)
                 /\ word_boundary(s, e)}

\* the match the engine takes: the domain as long as it can be, then the
\* last part as long as it can be
email_match(s, i) ==
    LET ends == email_ends(s, i)
    IN  IF ends = {} THEN 0
        ELSE LET best == CHOOSE x \in ends :
                             \A y \in ends :
                                 y[1] < x[1] \/ (y[1] = x[1] /\ y[2] <= x[2])
             IN  best[2] - i

\* the length of the match of a pattern of the service that starts at index
\* i of s, 0 when it does not match there; no pattern matches the empty str
match_len(pattern, s, i) ==
    CASE pattern = "space" -> space_match(s, i)
      [] pattern = "html" -> html_match(s, i)
      [] pattern = "heading" -> heading_match(s, i)
      [] pattern = "star" -> star_match(s, i)
      [] pattern = "underscore" -> underscore_match(s, i)
      [] pattern = "link" -> link_match(s, i)
      [] pattern = "image" -> image_match(s, i)
      [] pattern = "fence" -> fence_match(s, i)
      [] pattern = "code" -> code_match(s, i)
      [] pattern = "quote" -> quote_match(s, i)
      [] pattern = "bullet" -> bullet_match(s, i)
      [] pattern = "numbered" -> numbered_match(s, i)
      [] pattern = "rule" -> rule_match(s, i)
      [] pattern = "url" -> url_match(s, i)
      [] pattern = "email" -> email_match(s, i)

\* what replaces the match of the pattern at index i: ' ' for a run of
\* whitespace, group 1 for emphasis, links and inline code, '' otherwise
replacement(pattern, s, i) ==
    CASE pattern = "space" -> <<" ">>
      [] pattern = "star" -> star_repl(s, i)
      [] pattern = "underscore" -> underscore_repl(s, i)
      [] pattern = "link" -> link_repl(s, i)
      [] pattern = "code" -> code_repl(s, i)
      [] OTHER -> <<>>

\* re.sub from index i on: the search resumes after each match
RECURSIVE re_sub(_, _, _)
re_sub(pattern, s, i) ==
    IF i > Len(s) THEN <<>>
    ELSE LET n == match_len(pattern, s, i)
         IN  IF n > 0
             THEN replacement(pattern, s, i) \o re_sub(pattern, s, i + n)
             ELSE <<s[i]>> \o re_sub(pattern, s, i + 1)

\* strip_extra_whitespace: re.sub(r'\s+', ' ', text), then strip()
strip_extra_whitespace(t) == strip(re_sub("space", t, 1))

\* the lines of t that are not blank
RECURSIVE non_blank(_)
non_blank(lines) ==
    IF lines = <<>> THEN <<>>
    ELSE (IF strip(Head(lines)) # <<>> THEN <<Head(lines)>> ELSE <<>>)
             \o non_blank(Tail(lines))

\* strip_empty_lines
strip_empty_lines(t) == join(non_blank(split(t, NL)), NL)

\* strip_html_tags
strip_html_tags(t) == re_sub("html", t, 1)

\* the patterns of the re.sub calls of strip_markdown, in their order
MarkdownPatterns ==
    <<"heading", "star", "underscore", "link", "image", "fence", "code",
      "quote", "bullet", "numbered", "rule">>

\* text = re.sub(pattern, repl, text) for each pattern in turn
RECURSIVE sub_all(_, _)
sub_all(patterns, t) ==
    IF patterns = <<>> THEN t
    ELSE sub_all(Tail(patterns), re_sub(Head(patterns), t, 1))

\* the eleven re.sub calls of strip_markdown
markdown_rules(t) == sub_all(MarkdownPatterns, t)

\* strip_markdown(text), keep_text left at its default True
strip_markdown(t) == strip_extra_whitespace(markdown_rules(t))

\* strip_urls
strip_urls(t) == re_sub("url", t, 1)

\* strip_email
strip_email(t) == re_sub("email", t, 1)

\* the four patterns of normalize_quotes, in order; the second is the two
\* adjacent literals r'[' and ']' of its source line, concatenated
QuotePatterns ==
    << <<"[", "\"", "\"", "]">>,
       <<"[", "]">>,
       <<"U+300C", "|", "U+300D">>,
       <<"U+300E", "|", "U+300F">> >>

\* what re.compile accepts: in a character class a ] right after the [ is a
\* member, and the class needs a ] after it to end
pattern_compiles(p) ==
    p[1] = "[" => \E j \in 3..Len(p) : p[j] = "]"

\* s with every character of cs replaced by the character c
RECURSIVE replace_chars(_, _, _)
replace_chars(s, cs, c) ==
    IF s = <<>> THEN <<>>
    ELSE <<IF Head(s) \in cs THEN c ELSE Head(s)>>
             \o replace_chars(Tail(s), cs, c)

\* normalize_quotes: the four re.sub calls; re.sub raises re.error, whatever
\* the text, when its pattern does not compile
normalize_quotes(t) ==
    IF \E k \in 1..Len(QuotePatterns) : ~pattern_compiles(QuotePatterns[k])
    THEN [raised |-> TRUE, value |-> <<>>]
    ELSE [raised |-> FALSE,
          value |-> replace_chars(replace_chars(replace_chars(
                        t, {"\""}, "\""), {"U+300C", "U+300D"}, "\""),
                        {"U+300E", "U+300F"}, "\"")]

\* the keys smart_strip reads from options
OptionKeys ==
    {"strip_whitespace", "strip_html", "strip_markdown", "strip_punctuation",
     "strip_urls", "strip_emoji", "normalize"}

\* options=None
NoOptions == [given |-> FALSE, keys |-> {}, on |-> {}]

\* a dict, as the set of its keys and the set of those it maps to a true
\* value; the empty dict has no key
Options(keys, enabled) == [given |-> TRUE, keys |-> keys, on |-> enabled]

\* a default dict that also turns strip_markdown on
DefaultOptions_with_markdown ==
    {"strip_whitespace", "strip_html", "strip_markdown", "strip_urls",
     "strip_emoji", "normalize"}

\* the default dict of smart_strip
DefaultOptions ==
    {"strip_whitespace", "strip_html", "strip_urls", "strip_emoji", "normalize"}

\* options = options or {...}: None and the empty dict are replaced
effective_options(o) ==
    IF ~o.given \/ o.keys = {} THEN DefaultOptions ELSE o.on

\* the steps of smart_strip, in the order of its if statements; the last one
\* has no flag
Steps ==
    <<"strip_html", "strip_markdown", "strip_urls", "strip_emoji",
      "strip_punctuation", "normalize", "strip_whitespace", "invisible">>

\* apply_step with a last step that deletes nothing
apply_step_keep_invisible(name, t) ==
    CASE name = "strip_html" -> [raised |-> FALSE, value |-> strip_html_tags(t)]
      [] name = "strip_markdown" ->
             [raised |-> FALSE, value |-> strip_markdown(t)]
      [] name = "strip_urls" -> [raised |-> FALSE, value |-> strip_urls(t)]
      [] name = "strip_emoji" -> [raised |-> FALSE, value |-> strip_emoji(t)]
      [] name = "strip_punctuation" ->
             [raised |-> FALSE, value |-> strip_punctuation(t)]
      [] name = "normalize" -> normalize_quotes(t)
      [] name = "strip_whitespace" ->
             [raised |-> FALSE,
              value |-> strip_empty_lines(strip_extra_whitespace(t))]
      [] name = "invisible" -> [raised |-> FALSE, value |-> t]

\* one step of smart_strip on the text t
apply_step(name, t) ==
    CASE name = "strip_html" -> [raised |-> FALSE, value |-> strip_html_tags(t)]
      [] name = "strip_markdown" ->
             [raised |-> FALSE, value |-> strip_markdown(t)]
      [] name = "strip_urls" -> [raised |-> FALSE, value |-> strip_urls(t)]
      [] name = "strip_emoji" -> [raised |-> FALSE, value |-> strip_emoji(t)]
      [] name = "strip_punctuation" ->
             [raised |-> FALSE, value |-> strip_punctuation(t)]
      [] name = "normalize" -> normalize_quotes(t)
      [] name = "strip_whitespace" ->
             [raised |-> FALSE,
              value |-> strip_empty_lines(strip_extra_whitespace(t))]
      [] name = "invisible" ->
             [raised |-> FALSE, value |-> strip_invisible_chars(t)]

\* the steps from the k-th on: a step runs when its flag is on, on the text
\* the steps before it left, and a raise ends the call
RECURSIVE run_steps(_, _, _)
run_steps(r, on, k) ==
    IF r.raised \/ k > Len(Steps) THEN r
    ELSE IF Steps[k] = "invisible" \/ Steps[k] \in on
         THEN run_steps(apply_step(Steps[k], r.value), on, k + 1)
         ELSE run_steps(r, on, k + 1)

\* smart_strip
smart_strip(t, o) ==
    IF t = <<>> THEN [raised |-> FALSE, value |-> <<>>]
    ELSE run_steps([raised |-> FALSE, value |-> t], effective_options(o), 1)

\* extract_clean_text
extract_clean_text(t) ==
    strip_empty_lines(strip_extra_whitespace(strip_invisible_chars(
        strip_emoji(strip_email(strip_urls(strip_markdown(
            strip_html_tags(t))))))))

\* the paragraph indentation of prepare_for_publishing
Indent == <<"U+3000", "U+3000">>

\* the paragraphs of text.split('\n\n')
RECURSIVE split_paragraphs(_)
split_paragraphs(s) ==
    IF \A i \in 1..(Len(s) - 1) : ~(s[i] = NL /\ s[i + 1] = NL) THEN <<s>>
    ELSE LET i == CHOOSE k \in 1..(Len(s) - 1) :
                      /\ s[k] = NL /\ s[k + 1] = NL
                      /\ \A j \in 1..(k - 1) : ~(s[j] = NL /\ s[j + 1] = NL)
         IN  <<SubSeq(s, 1, i - 1)>>
                 \o split_paragraphs(SubSeq(s, i + 2, Len(s)))

\* the loop of prepare_for_publishing over the paragraphs
RECURSIVE indent_paragraphs(_)
indent_paragraphs(paragraphs) ==
    IF paragraphs = <<>> THEN <<>>
    ELSE LET para == strip(Head(paragraphs))
         IN  (IF para = <<>> THEN <<>>
              ELSE IF startswith(para, Indent) THEN <<para>>
              ELSE <<Indent \o para>>)
                 \o indent_paragraphs(Tail(paragraphs))

\* '\n\n'.join(cleaned_paragraphs)
RECURSIVE join_paragraphs(_)
join_paragraphs(paragraphs) ==
    IF paragraphs = <<>> THEN <<>>
    ELSE IF Len(paragraphs) = 1 THEN paragraphs[1]
    ELSE paragraphs[1] \o <<NL, NL>> \o join_paragraphs(Tail(paragraphs))

\* prepare_for_publishing
prepare_for_publishing(t) ==
    LET r == normalize_quotes(strip_extra_whitespace(strip_invisible_chars(t)))
    IN  IF r.raised THEN r
        ELSE [raised |-> FALSE,
              value |-> join_paragraphs(indent_paragraphs(
                            split_paragraphs(r.value)))]

\* the strip_type values a caller passes: the four named in the docstring
\* and one that is none of them
StripTypes == {"basic", "clean", "publish", "smart", "other"}

\* strip_type: str = 'basic'
DefaultStripType == "basic"

\* strip_text(text, strip_type), the convenience function over the global
\* text_strip_service instance; 'smart' passes no options
strip_text(t, type) ==
    CASE type = "basic" -> [raised |-> FALSE, value |-> strip_basic(t)]
      [] type = "clean" -> [raised |-> FALSE, value |-> extract_clean_text(t)]
      [] type = "publish" -> prepare_for_publishing(t)
      [] type = "smart" -> smart_strip(t, NoOptions)
      [] OTHER -> [raised |-> FALSE, value |-> strip_basic(t)]

\* no get_stats call yet
NoneStats == <<>>

\* len(re.findall(...)) for a pattern that is one character class
count_chars(s, cs) == Len(s) - Len(remove_chars(s, cs))

\* the characters of s in the class [\u4e00-\u9fa5]
ChineseChars(s) ==
    {c \in {s[i] : i \in 1..Len(s)} :
        CodePoint(c) >= 19968 /\ CodePoint(c) <= 40869}

\* len(s.split()): the number of maximal runs of non-whitespace characters
count_words(s) ==
    Cardinality({i \in 1..Len(s) :
                    /\ s[i] \notin Whitespace
                    /\ (i = 1 \/ s[i - 1] \in Whitespace)})

\* len([p for p in text.split('\n\n') if p.strip()])
count_paragraphs(s) ==
    Cardinality({i \in 1..Len(split_paragraphs(s)) :
                    strip(split_paragraphs(s)[i]) # <<>>})

\* get_stats with the character classes counted in the text itself
get_stats_raw_counts(t, clean_text) ==
    [total_chars |-> Len(t),
     clean_chars |-> Len(clean_text),
     chinese_chars |-> count_chars(t, ChineseChars(t)),
     english_chars |-> count_chars(t, Lower \cup Upper),
     numbers |-> count_chars(t, Digits),
     lines |-> Len(split(t, NL)),
     paragraphs |-> count_paragraphs(t),
     words |-> count_words(clean_text)]

\* get_stats with total_chars and clean_chars exchanged
get_stats_swapped(t, clean_text) ==
    [total_chars |-> Len(clean_text),
     clean_chars |-> Len(t),
     chinese_chars |-> count_chars(clean_text, ChineseChars(clean_text)),
     english_chars |-> count_chars(clean_text, Lower \cup Upper),
     numbers |-> count_chars(clean_text, Digits),
     lines |-> Len(split(t, NL)),
     paragraphs |-> count_paragraphs(t),
     words |-> count_words(clean_text)]

\* the dict get_stats returns, clean_text being extract_clean_text(text)
get_stats(t, clean_text) ==
    [total_chars |-> Len(t),
     clean_chars |-> Len(clean_text),
     chinese_chars |-> count_chars(clean_text, ChineseChars(clean_text)),
     english_chars |-> count_chars(clean_text, Lower \cup Upper),
     numbers |-> count_chars(clean_text, Digits),
     lines |-> Len(split(t, NL)),
     paragraphs |-> count_paragraphs(t),
     words |-> count_words(clean_text)]

----------------------------------------------------------------------------
(* services/file_manager.py: FileManager, and the update and upload        *)
(* handlers of routers/novel.py                                            *)

\* "# 女频小说初稿", the first line of a saved file
FileHeader ==
    <<"#", " ", "U+5973", "U+9891", "U+5C0F", "U+8BF4", "U+521D", "U+7A3F">>

\* "## 作品简介"
IntroHeading == <<"#", "#", " ", "U+4F5C", "U+54C1", "U+7B80", "U+4ECB">>

\* "## 精彩片段"
ParagraphHeading == <<"#", "#", " ", "U+7CBE", "U+5F69", "U+7247", "U+6BB5">>

\* the four lines _reconstruct_markdown appends for each chapter
RECURSIVE chapter_lines(_)
chapter_lines(chapters) ==
    IF chapters = <<>> THEN <<>>
    ELSE << <<"#", "#", " ">> \o Head(chapters).chapterTitle, <<>>,
            Head(chapters).content, <<>> >>
           \o chapter_lines(Tail(chapters))

\* the list lines of _reconstruct_markdown
reconstruct_lines(d) ==
    << FileHeader,
       <<>>,
       <<"#", " ">> \o d.title,
       <<>>,
       <<"-", "-", "-">>,
       <<>>,
       <<"*", "*", "U+4F5C", "U+8005", "*", "*", ":", " ">> \o d.author,
       <<>>,
       <<"*", "*", "U+5206", "U+7C7B", "*", "*", ":", " ">>
           \o d.firstCategory \o <<" ", ">", " ">> \o d.secondCategory
           \o <<" ", ">", " ">> \o d.thirdCategory,
       <<>>,
       IntroHeading,
       <<>>,
       d.intro,
       <<>>,
       ParagraphHeading,
       <<>>,
       d.awesomeParagraph,
       <<>>,
       <<"-", "-", "-">>,
       <<>> >>
        \o chapter_lines(d.chapterList)

\* _reconstruct_markdown
_reconstruct_markdown(d) == join(reconstruct_lines(d), NL)

\* str.endswith
endswith(s, suffix) ==
    /\ Len(s) >= Len(suffix)
    /\ SubSeq(s, Len(s) - Len(suffix) + 1, Len(s)) = suffix

\* '.md', the suffix upload_novel asks for
MarkdownSuffix == <<".", "m", "d">>

\* the statements of save_novel_file that touch the file system, with the
\* backup after the write
SaveSteps_backup_last == <<"open", "write", "backup_file">>

\* the statements of save_novel_file that touch the file system, in order:
\* backup_file, aiofiles.open(file_path, 'w') and f.write(content)
SaveSteps == <<"backup_file", "open", "write">>

\* no update request yet
NoData == <<>>

\* no response yet
NoResponse == [handler |-> "none", status |-> 0, detail |-> "", file |-> <<>>]

\* the attributes __init__ gives the instance
InitialInstance ==
    [punctuation_patterns |->
        [chinese |-> PunctuationChinese,
         english |-> PunctuationEnglish,
         special |-> {"@", "#", "$", "%", "^", "&", "*", "+", "=", "|",
                      "\\", "~", "U+0060"}]]

----------------------------------------------------------------------------
(* The input files.                                                        *)

\* the lines an input file is made of
LineShapes ==
    { <<>>,
      <<"a", "\t", "*", "b", "\r">>,
      <<"#", " ", "t">>,
      <<" ", "#", "u", " ">>,
      <<"#">>,
      <<"#", "#", " ", "a">>,
      <<"#", "#", "\t", "b", " ", "c">>,
      <<" ", "#", "#", " ", "b">>,
      <<"#", "#", " ", " ">>,
      <<"#", "#", "#", " ", "c">> }

\* the seq values a client sends
SeqValues == {NoneSeq} \cup (1..MaxSeq)

----------------------------------------------------------------------------
(* The parse and publish handlers.                                         *)

Init ==
    /\ \E n \in 1..MaxLines :
          \E ls \in [1..n -> LineShapes] : text = join(ls, NL)
    /\ op = "start"
    /\ title = NoneTitle
    /\ chapterList = <<>>
    /\ stats = [wordCount |-> 0, chapterCount |-> 0]
    /\ request = <<>>
    /\ published = <<>>
    /\ source = "user"
    /\ options = NoOptions
    /\ out = <<>>
    /\ raised = FALSE
    /\ textStats = NoneStats
    /\ strip_type = DefaultStripType
    /\ pc = 0
    /\ data = NoData
    /\ before = <<>>
    /\ backups = <<>>
    /\ uploads = {}
    /\ response = NoResponse
    /\ calls = <<>>
    /\ frames = <<>>
    /\ instance = InitialInstance

\* POST /parse: parse_novel builds the PublicationData and returns it
ParseNovel ==
    /\ op \in {"start", "updated"}
    /\ LET raw_data == parse_markdown(text)
       IN  /\ title' = raw_data.title
           /\ chapterList' = number_chapters(raw_data.chapters)
           /\ stats' = raw_data.stats
    /\ op' = "parsed"
    /\ UNCHANGED <<text, request, published>>
    /\ UNCHANGED stripVars
    /\ UNCHANGED fileVars
    /\ UNCHANGED callVars

\* POST /publish: publish_novel renumbers the chapters of request.data, which
\* the client sends with seq values of its own
PublishNovel ==
    /\ op = "parsed"
    /\ \E seqs \in [1..Len(chapterList) -> SeqValues] :
          /\ request' = [i \in 1..Len(chapterList) |->
                            [chapterList[i] EXCEPT !.seq = seqs[i]]]
          /\ published' = format_chapters(request')
    /\ op' = "published"
    /\ UNCHANGED <<text, title, chapterList, stats>>
    /\ UNCHANGED stripVars
    /\ UNCHANGED fileVars
    /\ UNCHANGED callVars

Next == ParseNovel \/ PublishNovel

Spec == Init /\ [][Next]_vars

----------------------------------------------------------------------------
(* The calls of the text cleaning service.                                 *)

\* the pieces a text to clean is made of
StripPieces ==
    { <<"#", " ">>,
      <<"#", " ", "#", " ">>,
      <<"a">>,
      <<"1">>,
      <<" ">>,
      <<"\n">>,
      <<"*">>,
      <<"<">>,
      <<">">>,
      <<".">>,
      <<"*", "a", "*">>,
      <<"_", "a", "_">>,
      <<"<", "b", ">">>,
      <<"b", "\n", "\n">>,
      <<"U+0060", "a", "U+0060">>,
      <<"[", "a", "]", "(", "x", ")">>,
      <<"h", "t", "t", "p", ":", "/", "/", "x">>,
      <<"a", "@", "b", ".", "c", "d">>,
      <<"U+200B">>,
      <<"U+201C">>,
      <<"U+3000", "U+3000">>,
      <<"U+4E2D">>,
      <<"U+1F600">> }

\* the pieces of ps, one after the other
RECURSIVE concat(_)
concat(ps) == IF ps = <<>> THEN <<>> ELSE Head(ps) \o concat(Tail(ps))

\* the options arguments of the smart_strip calls
OptionChoices ==
    {NoOptions, Options({}, {}), Options(OptionKeys, {}),
     Options(OptionKeys, OptionKeys),
     Options(OptionKeys, OptionKeys \ {"normalize"})}
        \cup {Options(OptionKeys, {k}) : k \in OptionKeys}

InitStrip ==
    /\ \E n \in 0..MaxPieces :
          \E ps \in [1..n -> StripPieces] : text = concat(ps)
    /\ op = "start"
    /\ title = NoneTitle
    /\ chapterList = <<>>
    /\ stats = [wordCount |-> 0, chapterCount |-> 0]
    /\ request = <<>>
    /\ published = <<>>
    /\ source = "user"
    /\ options = NoOptions
    /\ out = <<>>
    /\ raised = FALSE
    /\ textStats = NoneStats
    /\ strip_type = DefaultStripType
    /\ pc = 0
    /\ data = NoData
    /\ before = <<>>
    /\ backups = <<>>
    /\ uploads = {}
    /\ response = NoResponse
    /\ calls = <<>>
    /\ frames = <<>>
    /\ instance = InitialInstance

\* text_strip_service.normalize_quotes(text)
NormalizeQuotes ==
    /\ op = "start"
    /\ \E r \in {normalize_quotes(text)} :
          out' = r.value /\ raised' = r.raised
    /\ op' = "normalize_quotes"
    /\ UNCHANGED <<text, source, options, textStats, strip_type>>
    /\ UNCHANGED parserVars
    /\ UNCHANGED fileVars
    /\ UNCHANGED callVars

\* text_strip_service.smart_strip(text, options)
SmartStrip ==
    /\ op = "start"
    /\ \E o \in OptionChoices :
          /\ options' = o
          /\ \E r \in {smart_strip(text, o)} :
                out' = r.value /\ raised' = r.raised
    /\ op' = "smart_strip"
    /\ UNCHANGED <<text, source, textStats, strip_type>>
    /\ UNCHANGED parserVars
    /\ UNCHANGED fileVars
    /\ UNCHANGED callVars

\* text_strip_service.extract_clean_text(text)
ExtractCleanText ==
    /\ op = "start"
    /\ out' = extract_clean_text(text)
    /\ raised' = FALSE
    /\ op' = "extract_clean_text"
    /\ UNCHANGED <<text, source, options, textStats, strip_type>>
    /\ UNCHANGED parserVars
    /\ UNCHANGED fileVars
    /\ UNCHANGED callVars

\* text_strip_service.prepare_for_publishing(text)
PrepareForPublishing ==
    /\ op = "start"
    /\ \E r \in {prepare_for_publishing(text)} :
          out' = r.value /\ raised' = r.raised
    /\ op' = "prepare_for_publishing"
    /\ UNCHANGED <<text, source, options, textStats, strip_type>>
    /\ UNCHANGED parserVars
    /\ UNCHANGED fileVars
    /\ UNCHANGED callVars

\* the caller passes the str a call returned to the service again
Resubmit ==
    /\ op \in {"normalize_quotes", "smart_strip", "extract_clean_text",
               "prepare_for_publishing"}
    /\ ~raised
    /\ text' = out
    /\ source' = op
    /\ op' = "start"
    /\ out' = <<>>
    /\ options' = NoOptions
    /\ strip_type' = DefaultStripType
    /\ UNCHANGED <<raised, textStats>>
    /\ UNCHANGED parserVars
    /\ UNCHANGED fileVars
    /\ UNCHANGED callVars

\* text_strip_service.strip_emoji(text)
StripEmoji ==
    /\ op = "start"
    /\ out' = strip_emoji(text)
    /\ raised' = FALSE
    /\ op' = "strip_emoji"
    /\ UNCHANGED <<text, source, options, textStats, strip_type>>
    /\ UNCHANGED parserVars
    /\ UNCHANGED fileVars
    /\ UNCHANGED callVars

\* text_strip_service.get_stats(text)
GetStats ==
    /\ op = "start"
    /\ \E clean_text \in {extract_clean_text(text)} :
          textStats' = get_stats(text, clean_text)
    /\ raised' = FALSE
    /\ op' = "get_stats"
    /\ UNCHANGED <<text, source, options, out, strip_type>>
    /\ UNCHANGED parserVars
    /\ UNCHANGED fileVars
    /\ UNCHANGED callVars

\* strip_text(text, strip_type)
StripText ==
    /\ op = "start"
    /\ \E type \in StripTypes :
          /\ strip_type' = type
          /\ \E r \in {strip_text(text, type)} :
                out' = r.value /\ raised' = r.raised
    /\ op' = "strip_text"
    /\ UNCHANGED <<text, source, options, textStats>>
    /\ UNCHANGED parserVars
    /\ UNCHANGED fileVars
    /\ UNCHANGED callVars

NextStrip ==
    \/ NormalizeQuotes
    \/ StripText
    \/ SmartStrip
    \/ ExtractCleanText
    \/ PrepareForPublishing
    \/ StripEmoji
    \/ GetStats
    \/ Resubmit

SpecStrip == InitStrip /\ [][NextStrip]_vars

----------------------------------------------------------------------------
(* The update and upload handlers over the files of the data directory.    *)

\* the titles of the update requests
UpdateTitles == { <<"t">>, <<"m", "y", " ", "b">> }

\* the chapter lists of the update requests
UpdateChapterLists ==
    LET c == [chapterTitle |-> <<"c">>, content |-> <<"x">>]
        e == [chapterTitle |-> <<"d", " ", "e">>,
              content |-> <<"y", "\n", "z">>]
    IN  { <<>>,
          number_chapters(<<c>>),
          number_chapters(<<c, e>>),
          number_chapters(<<e, c>>) }

\* request.data of the update requests
UpdateData ==
    { [title |-> t, author |-> <<"A">>, firstCategory |-> <<"f">>,
       secondCategory |-> <<"s">>, thirdCategory |-> <<"g">>,
       intro |-> <<"i", "n">>, awesomeParagraph |-> <<"p">>,
       chapterList |-> cs] :
          t \in UpdateTitles, cs \in UpdateChapterLists }

\* the names of the uploaded files
UploadNames ==
    { <<"a", ".", "m", "d">>, <<"a", ".", "t", "x", "t">>,
      <<"a", ".", "M", "D">> }

\* the content of the target file before the first request
InitialFiles ==
    { <<>>, join(<< <<"#", " ", "o">>, <<"#", "#", " ", "c">>, <<"x">> >>, NL) }

InitFiles ==
    /\ text \in InitialFiles
    /\ op = "start"
    /\ title = NoneTitle
    /\ chapterList = <<>>
    /\ stats = [wordCount |-> 0, chapterCount |-> 0]
    /\ request = <<>>
    /\ published = <<>>
    /\ source = "user"
    /\ options = NoOptions
    /\ out = <<>>
    /\ raised = FALSE
    /\ textStats = NoneStats
    /\ strip_type = DefaultStripType
    /\ pc = 0
    /\ data = NoData
    /\ before = <<>>
    /\ backups = <<>>
    /\ uploads = {}
    /\ response = NoResponse
    /\ calls = <<>>
    /\ frames = <<>>
    /\ instance = InitialInstance

\* PUT /update arrives: update_novel calls save_novel_file(filePath, data)
UpdateNovel ==
    /\ pc = 0
    /\ Len(backups) < MaxBackups
    /\ \E d \in UpdateData : data' = d
    /\ before' = text
    /\ pc' = 1
    /\ response' = NoResponse
    /\ UNCHANGED <<text, op, backups, uploads>>
    /\ UNCHANGED parserVars
    /\ UNCHANGED stripVars
    /\ UNCHANGED callVars

\* the statement at pc has run: save_novel_file goes on, or it returns and
\* update_novel answers
SaveGoesOn ==
    IF pc < Len(SaveSteps)
    THEN pc' = pc + 1 /\ UNCHANGED <<op, response>>
    ELSE /\ pc' = 0
         /\ op' = "updated"
         /\ response' = [handler |-> "update", status |-> 200,
                         detail |-> "", file |-> <<>>]

\* the statement at pc raises: save_novel_file logs and raises again, and
\* update_novel answers with HTTPException(500)
SaveRaises ==
    /\ pc' = 0
    /\ response' = [handler |-> "update", status |-> 500,
                    detail |-> SaveSteps[pc], file |-> <<>>]
    /\ UNCHANGED op

\* backup_file: shutil.copy2 copies the target file into the backup directory
BackupFile ==
    /\ pc # 0
    /\ SaveSteps[pc] = "backup_file"
    /\ \/ backups' = Append(backups, text) /\ SaveGoesOn
       \/ UNCHANGED backups /\ SaveRaises
    /\ UNCHANGED <<text, data, before, uploads>>
    /\ UNCHANGED parserVars
    /\ UNCHANGED stripVars
    /\ UNCHANGED callVars

\* aiofiles.open(file_path, 'w') truncates the target file
OpenTarget ==
    /\ pc # 0
    /\ SaveSteps[pc] = "open"
    /\ \/ text' = <<>> /\ SaveGoesOn
       \/ UNCHANGED text /\ SaveRaises
    /\ UNCHANGED <<data, before, backups, uploads>>
    /\ UNCHANGED parserVars
    /\ UNCHANGED stripVars
    /\ UNCHANGED callVars

\* f.write(content), content being _reconstruct_markdown(data)
WriteTarget ==
    /\ pc # 0
    /\ SaveSteps[pc] = "write"
    /\ \/ text' = _reconstruct_markdown(data) /\ SaveGoesOn
       \/ UNCHANGED text /\ SaveRaises
    /\ UNCHANGED <<data, before, backups, uploads>>
    /\ UNCHANGED parserVars
    /\ UNCHANGED stripVars
    /\ UNCHANGED callVars

\* the exception classes that derive from Exception
ExceptionClasses == {"HTTPException", "OSError"}

\* try: ... except Exception as e: raise HTTPException(status_code=500):
\* the status the client gets when the try block raises e
status_of_raise(e) ==
    IF e.class \in ExceptionClasses THEN 500 ELSE e.status_code

\* POST /upload: upload_novel checks the name and stores the file
UploadNovel ==
    /\ \E name \in UploadNames :
          IF ~endswith(name, MarkdownSuffix)
          THEN /\ response' =
                     [handler |-> "upload",
                      status |-> status_of_raise(
                          [class |-> "HTTPException", status_code |-> 400]),
                      detail |-> "type", file |-> name]
               /\ UNCHANGED uploads
          ELSE \/ /\ uploads' = uploads \cup {name}
                  /\ response' = [handler |-> "upload", status |-> 200,
                                  detail |-> "", file |-> name]
               \/ /\ response' =
                        [handler |-> "upload",
                         status |-> status_of_raise(
                             [class |-> "OSError", status_code |-> 0]),
                         detail |-> "save_upload_file", file |-> name]
                  /\ UNCHANGED uploads
    /\ UNCHANGED <<text, op, pc, data, before, backups>>
    /\ UNCHANGED parserVars
    /\ UNCHANGED stripVars
    /\ UNCHANGED callVars

NextFiles ==
    \/ ParseNovel
    \/ UpdateNovel
    \/ BackupFile
    \/ OpenTarget
    \/ WriteTarget
    \/ UploadNovel

SpecFiles == InitFiles /\ [][NextFiles]_vars

----------------------------------------------------------------------------
(* Invocations of the parser and of the shared text_strip_service          *)
(* instance, interleaved statement by statement.                           *)

\* the invocations in flight
Callers == 1..MaxCalls

\* every invocation has all its variables in one place on the instance
frame_of_instance(c) == 1

\* where the parameters and local variables of the invocation c are: in a
\* frame of its own
frame_of(c) == c

\* the statements of extract_clean_text, in order
CleanSteps ==
    <<"strip_html", "strip_markdown", "strip_urls", "strip_email",
      "strip_emoji", "invisible", "extra_whitespace", "empty_lines">>

\* one statement of extract_clean_text on the text t
clean_step(name, t) ==
    CASE name = "strip_email" -> strip_email(t)
      [] name = "extra_whitespace" -> strip_extra_whitespace(t)
      [] name = "empty_lines" -> strip_empty_lines(t)
      [] OTHER -> apply_step(name, t).value

\* the statements an invocation of fn runs on its local text, in order
statements(fn, o) ==
    CASE fn = "smart_strip" ->
             SelectSeq(Steps, LAMBDA name :
                 name = "invisible" \/ name \in effective_options(o))
      [] fn = "extract_clean_text" -> CleanSteps
      [] fn = "get_stats" -> <<"get_stats">>
      [] fn = "parse_markdown" -> <<"parse_markdown">>

\* what the statement name makes of the local text t
run_statement(fn, name, t) ==
    CASE fn = "smart_strip" -> apply_step(name, t)
      [] fn = "extract_clean_text" ->
             [raised |-> FALSE, value |-> clean_step(name, t)]
      [] fn = "get_stats" ->
             [raised |-> FALSE, value |-> get_stats(t, extract_clean_text(t))]
      [] fn = "parse_markdown" ->
             [raised |-> FALSE, value |-> parse_markdown(t)]

\* what the invocation returns when it runs alone
alone(fn, t, o) ==
    CASE fn = "smart_strip" -> smart_strip(t, o)
      [] fn = "extract_clean_text" ->
             [raised |-> FALSE, value |-> extract_clean_text(t)]
      [] fn = "get_stats" ->
             [raised |-> FALSE, value |-> get_stats(t, extract_clean_text(t))]
      [] fn = "parse_markdown" ->
             [raised |-> FALSE, value |-> parse_markdown(t)]

\* the functions invoked
CallFunctions ==
    {"smart_strip", "extract_clean_text", "get_stats", "parse_markdown"}

\* the texts they are invoked with, none of them empty
CallTexts ==
    { <<"<", "b", ">", "a", " ", " ", "x">>,
      <<"#", "#", " ", "c", "\n", "*", "d", "*", ".">> }

\* the options of the smart_strip invocations
CallOptions == {NoOptions, Options(OptionKeys, OptionKeys \ {"normalize"})}

\* no invocation
NoCall ==
    [state |-> "idle", fn |-> "", text |-> <<>>, options |-> NoOptions,
     k |-> 0, result |-> <<>>]

InitCalls ==
    /\ text = <<>>
    /\ op = "start"
    /\ title = NoneTitle
    /\ chapterList = <<>>
    /\ stats = [wordCount |-> 0, chapterCount |-> 0]
    /\ request = <<>>
    /\ published = <<>>
    /\ source = "user"
    /\ options = NoOptions
    /\ out = <<>>
    /\ raised = FALSE
    /\ textStats = NoneStats
    /\ strip_type = DefaultStripType
    /\ pc = 0
    /\ data = NoData
    /\ before = <<>>
    /\ backups = <<>>
    /\ uploads = {}
    /\ response = NoResponse
    /\ calls = [c \in Callers |-> NoCall]
    /\ frames = [f \in Callers |-> <<>>]
    /\ instance = InitialInstance

\* a caller invokes fn(t) or smart_strip(t, o): the arguments are bound to
\* the parameters
Invoke(c) ==
    /\ calls[c].state = "idle"
    /\ \E fn \in CallFunctions, t \in CallTexts, o \in CallOptions :
          /\ fn # "smart_strip" => o = NoOptions
          /\ calls' = [calls EXCEPT ![c] =
                 [state |-> "running", fn |-> fn, text |-> t, options |-> o,
                  k |-> 1, result |-> <<>>]]
          /\ frames' = [frames EXCEPT ![frame_of(c)] = t]
    /\ UNCHANGED instance

\* the invocation c runs its next statement on its local text
Step(c) ==
    /\ calls[c].state = "running"
    /\ calls[c].k <= Len(statements(calls[c].fn, calls[c].options))
    /\ \E r \in {run_statement(calls[c].fn,
                     statements(calls[c].fn, calls[c].options)[calls[c].k],
                     frames[frame_of(c)])} :
          IF r.raised
          THEN /\ calls' = [calls EXCEPT ![c].state = "raised",
                                         ![c].result = r]
               /\ UNCHANGED frames
          ELSE /\ calls' = [calls EXCEPT ![c].k = @ + 1]
               /\ frames' = [frames EXCEPT ![frame_of(c)] = r.value]
    /\ UNCHANGED instance

\* the invocation c returns its local text
Return(c) ==
    /\ calls[c].state = "running"
    /\ calls[c].k > Len(statements(calls[c].fn, calls[c].options))
    /\ calls' = [calls EXCEPT ![c].state = "returned",
                    ![c].result = [raised |-> FALSE,
                                   value |-> frames[frame_of(c)]]]
    /\ UNCHANGED <<frames, instance>>

NextCalls ==
    \E c \in Callers :
        /\ Invoke(c) \/ Step(c) \/ Return(c)
        /\ UNCHANGED <<text, op>>
        /\ UNCHANGED parserVars
        /\ UNCHANGED stripVars
        /\ UNCHANGED fileVars

SpecCalls == InitCalls /\ [][NextCalls]_vars

----------------------------------------------------------------------------
(* Properties of the parser and of the parse and publish handlers.         *)

\* the lines of the file
Lines == split(text, NL)

\* the smallest member of a non-empty set of numbers
Min(S) == CHOOSE i \in S : \A j \in S : i <= j

\* the k-th member of a set of numbers, in increasing order
Nth(S, k) == CHOOSE i \in S : Cardinality({j \in S : j < i}) = k - 1

\* the lines the parser's pattern recognizes as chapter headings
BoundaryLines == {i \in 1..Len(Lines) : is_match(Lines[i])}

\* the first boundary line after line i, or the line past the end
NextBoundary(i) ==
    IF \E j \in BoundaryLines : j > i
    THEN Min({j \in BoundaryLines : j > i})
    ELSE Len(Lines) + 1

\* C1: the chapters of a parsed document carry the sequence numbers 1..N in
\* the order of their boundary lines, and so do the chapters sent on
\* publish, whatever seq the incoming chapters carried.
C1_SeqOneToN ==
    /\ op = "parsed" =>
          /\ Len(chapterList) = Cardinality(BoundaryLines)
          /\ \A k \in 1..Len(chapterList) :
                /\ chapterList[k].seq = k
                /\ chapterList[k].chapterTitle =
                       match_group(Lines[Nth(BoundaryLines, k)])
    /\ op = "published" =>
          /\ Len(published) = Len(request)
          /\ \A k \in 1..Len(published) :
                /\ published[k].seq = k
                /\ published[k].chapterTitle = request[k].chapterTitle
                /\ published[k].content = request[k].content

\* a publish of two or more chapters one of which came with a wrong seq
C1_Witness ==
    /\ op = "published"
    /\ Len(published) >= 2
    /\ \E k \in 1..Len(request) : request[k].seq # k

\* C2: extract_chapters returns one chapter per boundary line, in boundary
\* order; the lines before the first boundary line are discarded, and a
\* text without boundary lines gives the empty list.
C2_OneChapterPerBoundary ==
    op = "parsed" =>
        /\ Len(chapterList) = Cardinality(BoundaryLines)
        /\ \A k \in 1..Len(chapterList) :
              chapterList[k].chapterTitle =
                  match_group(Lines[Nth(BoundaryLines, k)])
        /\ BoundaryLines = {} => chapterList = <<>>
        /\ BoundaryLines # {} =>
              \* no line before the first boundary reaches a chapter: the
              \* first chapter is made of the lines after its boundary
              LET b == Min(BoundaryLines)
              IN  chapterList[1].content =
                      strip(join(SubSeq(Lines, b + 1, NextBoundary(b) - 1), NL))

\* two chapters, after a preamble with content of its own
C2_Witness ==
    /\ op = "parsed"
    /\ Len(chapterList) >= 2
    /\ Min(BoundaryLines) > 1
    /\ strip(Lines[1]) # <<>>

\* C3: a chapter's content is the lines between its boundary line and the
\* next boundary line (or the end), joined with newlines and trimmed; the
\* last chapter is closed at the end of the input; no chapter content
\* contains a line that is itself a boundary line.
C3_ContentBetweenBoundaries ==
    op = "parsed" =>
        \A k \in 1..Len(chapterList) :
            LET b == Nth(BoundaryLines, k)
                contentLines == split(chapterList[k].content, NL)
            IN  /\ chapterList[k].content =
                       strip(join(SubSeq(Lines, b + 1, NextBoundary(b) - 1), NL))
                /\ \A j \in 1..Len(contentLines) : ~is_match(contentLines[j])

\* the boundary lines of the contract: the line without its leading
\* whitespace begins with exactly two # and a space followed by at least
\* one character that is not whitespace
ContractBoundary(line) ==
    LET s == lstrip(line)
    IN  /\ Len(s) >= 4
        /\ s[1] = "#" /\ s[2] = "#" /\ s[3] = " "
        /\ \E j \in 4..Len(s) : s[j] \notin Whitespace

\* the title of the contract: the line without the markers and the space
ContractTitle(line) == LET s == lstrip(line) IN SubSeq(s, 4, Len(s))

ContractBoundaryLines == {i \in 1..Len(Lines) : ContractBoundary(Lines[i])}

\* C4: a line starts a chapter exactly when, after its leading whitespace
\* is removed, it begins with two # followed by a space and at least one
\* character that is not whitespace; the chapter title is the line without
\* the markers and the separating space.
C4_BoundaryLines ==
    op = "parsed" =>
        /\ Len(chapterList) = Cardinality(ContractBoundaryLines)
        /\ \A k \in 1..Len(chapterList) :
              chapterList[k].chapterTitle =
                  ContractTitle(Lines[Nth(ContractBoundaryLines, k)])

\* a level-1 heading: the trimmed line starts with one # followed by content
IsLevel1(line) ==
    LET s == strip(line) IN Len(s) >= 2 /\ s[1] = "#" /\ s[2] # "#"

\* the content of a level-1 heading: the marker and the whitespace around
\* the rest removed
Level1Content(line) == lstrip(Tail(strip(line)))

HeadingLines == {i \in 1..Len(Lines) : IsLevel1(Lines[i])}

ThirdLineTitle == strip(remove_chars(Lines[3], {"#"}))

C7_PlaceholderTitle ==
    op = "parsed" =>
        /\ title # <<>>
        /\ (HeadingLines = {} /\ Len(Lines) < 3) => title = Placeholder

\* the placeholder for a text of two lines that are not blank
C7_Witness ==
    /\ op = "parsed"
    /\ HeadingLines = {}
    /\ Len(Lines) = 2
    /\ strip(Lines[1]) # <<>> /\ strip(Lines[2]) # <<>>
    /\ title = Placeholder

\* the number of characters of s outside the set cs
CountOutside(s, cs) == Cardinality({i \in 1..Len(s) : s[i] \notin cs})

----------------------------------------------------------------------------
(* Properties of the text cleaning service.                                *)

\* C9: every operation of the parser and of the cleaning service returns a
\* value for every text: no call raises.
C9_NeverRaises == raised = FALSE

\* C10: extract_clean_text is idempotent: cleaning a text that is itself a
\* result of extract_clean_text returns it unchanged.
C10_CleanIdempotent ==
    (op = "extract_clean_text" /\ source = "extract_clean_text") => out = text

\* the rule group a step of smart_strip stands for in the contract: markup
\* stripping removes markup and nothing of another kind
group_rule(name, t) ==
    IF name = "strip_markdown" THEN markdown_rules(t)
    ELSE apply_step(name, t).value

\* the enabled rule groups from the k-th on, applied in the order of the
\* contract, the invisible-character group always
RECURSIVE groups_in_order(_, _, _)
groups_in_order(t, on, k) ==
    IF k > Len(Steps) THEN t
    ELSE IF Steps[k] = "invisible" \/ Steps[k] \in on
         THEN groups_in_order(group_rule(Steps[k], t), on, k + 1)
         ELSE groups_in_order(t, on, k + 1)

\* C11: smart_strip returns the text the enabled rule groups give when they
\* are applied in the fixed order, a disabled group changing nothing of its
\* own kind; stated for the calls that do not ask for quote normalization.
C11_GroupsInOrder ==
    (op = "smart_strip" /\ "normalize" \notin effective_options(options))
        => (~raised /\ out = groups_in_order(text, effective_options(options), 1))

\* C12: a text smart_strip returns holds no zero-width character and no
\* control character, line feeds, carriage returns and tabs included,
\* whatever the options are.
C12_NoInvisibleOutput ==
    (op = "smart_strip" /\ ~raised)
        => \A i \in 1..Len(out) : out[i] \notin ZeroWidthChars \cup ControlChars

\* smart_strip with every flag off returned a text whose input held a line
\* feed or a zero-width character
C12_Witness ==
    /\ op = "smart_strip" /\ ~raised
    /\ options.given /\ options.keys # {} /\ options.on = {}
    /\ \E i \in 1..Len(text) : text[i] \in ZeroWidthChars \cup ControlChars
    /\ out # <<>>

\* every flag of smart_strip set
AllFlags == Options(OptionKeys, OptionKeys)

\* C13: for a non-empty text, extract_clean_text returns what smart_strip
\* returns with every option enabled.
C13_CleanIsSmartAll ==
    (op = "extract_clean_text" /\ text # <<>>)
        => LET r == smart_strip(text, AllFlags)
           IN  ~r.raised /\ r.value = out

\* the number of indentation characters a paragraph starts with
leading_indent(para) == run_length(para, 1, {"U+3000"})

\* C14: prepare_for_publishing applied to its own result returns paragraphs
\* that start with exactly one indentation marker, as those of the first
\* result do.
C14_NoDoubleIndent ==
    op = "prepare_for_publishing"
        => /\ ~raised
           /\ LET again == prepare_for_publishing(out)
              IN  /\ ~again.raised
                  /\ again.value # <<>>
                        => \A i \in 1..Len(split_paragraphs(again.value)) :
                              /\ leading_indent(
                                     split_paragraphs(again.value)[i])
                                       = Len(Indent)
                              /\ leading_indent(split_paragraphs(out)[i])
                                       = Len(Indent)

\* the paragraphs of the input: the parts between double newlines
InputParagraphs == split_paragraphs(text)

\* C15: for an input of k >= 1 non-empty paragraphs separated by double
\* newlines, prepare_for_publishing returns k paragraphs separated by double
\* newlines, each starting with the indentation marker.
C15_ParagraphsPreserved ==
    (/\ op = "prepare_for_publishing"
     /\ \A i \in 1..Len(InputParagraphs) : strip(InputParagraphs[i]) # <<>>)
        => /\ ~raised
           /\ Len(split_paragraphs(out)) = Len(InputParagraphs)
           /\ \A i \in 1..Len(split_paragraphs(out)) :
                  startswith(split_paragraphs(out)[i], Indent)

\* the characters prepare_for_publishing is meant to change: whitespace,
\* invisible characters and quotation marks
LightTouchChars ==
    Whitespace \cup ZeroWidthChars \cup ControlChars
        \cup {"\"", "'", "U+201C", "U+201D", "U+2018", "U+2019",
              "U+300C", "U+300D", "U+300E", "U+300F"}

\* C16: prepare_for_publishing returns a text in which every other character
\* of the input (markup, URLs, punctuation, letters) still stands, in order.
C16_MarkupUntouched ==
    op = "prepare_for_publishing"
        => /\ ~raised
           /\ remove_chars(out, LightTouchChars)
                  = remove_chars(text, LightTouchChars)

----------------------------------------------------------------------------
(* Properties of get_stats and of the primitive rules.                     *)

\* the number of characters of s that belong to cs
CountIn(s, cs) == Cardinality({i \in 1..Len(s) : s[i] \in cs})

\* C17: get_stats returns clean_chars <= total_chars, total_chars being the
\* length of the text and clean_chars that of extract_clean_text(text).
C17_CleanAtMostTotal ==
    op = "get_stats"
        => /\ textStats.total_chars = Len(text)
           /\ textStats.clean_chars = Len(extract_clean_text(text))
           /\ textStats.clean_chars <= textStats.total_chars

\* get_stats ran on a text that cleaning shortens without emptying it
C17_Witness ==
    /\ op = "get_stats"
    /\ textStats.clean_chars > 0
    /\ textStats.clean_chars < textStats.total_chars

\* C18: get_stats counts the Chinese, English and digit characters in
\* extract_clean_text(text) and the lines, paragraphs and characters in the
\* text itself; the three class counts add up to at most clean_chars.
C18_CountsOverCleanText ==
    op = "get_stats"
        => LET clean == extract_clean_text(text)
           IN  /\ textStats.chinese_chars = CountIn(clean, ChineseChars(clean))
               /\ textStats.english_chars = CountIn(clean, Lower \cup Upper)
               /\ textStats.numbers = CountIn(clean, Digits)
               /\ textStats.lines = Len(split(text, NL))
               /\ textStats.paragraphs = count_paragraphs(text)
               /\ textStats.total_chars = Len(text)
               /\ textStats.chinese_chars + textStats.english_chars
                     + textStats.numbers <= textStats.clean_chars

\* get_stats ran on a text that has more letters than its clean text, which
\* has some
C18_Witness ==
    /\ op = "get_stats"
    /\ textStats.english_chars > 0
    /\ textStats.english_chars < CountIn(text, Lower \cup Upper)

\* C19: for the empty string every count of get_stats is zero.
C19_EmptyTextZeroStats ==
    (op = "get_stats" /\ text = <<>>)
        => /\ textStats.total_chars = 0
           /\ textStats.clean_chars = 0
           /\ textStats.chinese_chars = 0
           /\ textStats.english_chars = 0
           /\ textStats.numbers = 0
           /\ textStats.lines = 0
           /\ textStats.paragraphs = 0
           /\ textStats.words = 0

\* the characters of s that are no pictographic symbols: ASCII letters and
\* digits and the ideographs of U+4E00..U+9FA5
PlainChars(s) ==
    {c \in {s[i] : i \in 1..Len(s)} :
        c \in Lower \cup Upper \cup Digits \/ c \in ChineseChars(s)}

\* C20: strip_emoji keeps every letter, digit and CJK ideograph of the
\* text, in order.
C20_EmojiOnly ==
    op = "strip_emoji"
        => LET others(s) == {s[i] : i \in 1..Len(s)} \ PlainChars(text)
           IN  remove_chars(out, others(out)) = remove_chars(text, others(text))

\* the quotation characters normalize_quotes is to replace: the curly double
\* quotes and the corner brackets, and the curly single quotes
DoubleQuoteVariants ==
    {"U+201C", "U+201D", "U+300C", "U+300D", "U+300E", "U+300F"}

SingleQuoteVariants == {"U+2018", "U+2019"}

\* C21: normalize_quotes returns the text with every curly double quote and
\* corner bracket replaced by the straight double quote, every curly single
\* quote by the straight single quote and every other character unchanged;
\* no curly or corner quotation character is left.
C21_QuotesNormalized ==
    op = "normalize_quotes"
        => /\ ~raised
           /\ out = replace_chars(
                        replace_chars(text, DoubleQuoteVariants, "\""),
                        SingleQuoteVariants, "'")
           /\ \A i \in 1..Len(out) :
                 out[i] \notin DoubleQuoteVariants \cup SingleQuoteVariants

\* C26: for a non-empty text and an options mapping with no flag enabled,
\* the empty mapping included, smart_strip returns strip_invisible_chars(text)
\* and applies no other rule group.
C26_NoFlagOnlyInvisible ==
    (op = "smart_strip" /\ text # <<>> /\ options.given /\ options.on = {})
        => /\ ~raised
           /\ out = strip_invisible_chars(text)

\* plain reading text: letters, digits and CJK ideographs, the words divided
\* by single spaces, no whitespace at either end
ReadingText(s) ==
    /\ \A i \in 1..Len(s) : s[i] \in PlainChars(s) \cup {" "}
    /\ s # <<>> => s[1] # " " /\ s[Len(s)] # " "
    /\ \A i \in 1..Len(s) - 1 : ~(s[i] = " " /\ s[i + 1] = " ")

\* C25: extract_clean_text returns plain reading text character for
\* character, CJK ideographs included.
C25_PlainTextUnchanged ==
    (op = "extract_clean_text" /\ ReadingText(text)) => out = text

\* the flags enabled when no options are given, as documented
DocumentedDefaults ==
    {"strip_whitespace", "strip_html", "strip_urls", "strip_emoji", "normalize"}

\* a call that got no options: smart_strip(text), or strip_text(text, 'smart')
NoOptionsCall ==
    \/ op = "smart_strip" /\ ~options.given
    \/ op = "strip_text" /\ strip_type = "smart"

\* C22: without options smart_strip, and strip_text with the 'smart' preset,
\* run with strip_whitespace, strip_html, strip_urls, strip_emoji and
\* normalize enabled and strip_markdown and strip_punctuation disabled, and
\* end as smart_strip with exactly these options ends.
C22_DefaultOptions ==
    NoOptionsCall
        => /\ effective_options(NoOptions) = DocumentedDefaults
           /\ [raised |-> raised, value |-> out]
                 = smart_strip(text, Options(OptionKeys, DocumentedDefaults))

\* strip_text ran a non-empty text with the 'smart' preset
C22_Witness ==
    /\ op = "strip_text"
    /\ strip_type = "smart"
    /\ text # <<>>

\* C23: the chapterCount of a parsed document equals the length of the
\* chapter list returned with it.
C23_ChapterCount ==
    op \in {"parsed", "published"} => stats.chapterCount = Len(chapterList)

\* a document of two chapters or more was parsed
C23_Witness ==
    /\ op = "parsed"
    /\ Len(chapterList) >= 2
    /\ stats.chapterCount = Len(chapterList)

----------------------------------------------------------------------------
(* Properties of the update and upload handlers.                           *)

\* the titles and contents of a chapter list, in its order
titles_and_contents(chapters) ==
    [i \in 1..Len(chapters) |->
        [chapterTitle |-> chapters[i].chapterTitle,
         content |-> chapters[i].content]]

\* update_novel has answered that the file is saved, and no later update
\* has begun
FileSaved ==
    /\ pc = 0
    /\ response.handler = "update"
    /\ response.status = 200

\* C27: the chapters extract_chapters reads from the file an update saved
\* are the chapters of the update's data, with the same titles and contents
\* in the same order, and so are those a parse of the saved file returns.
C27_ChaptersRoundTrip ==
    FileSaved
        => /\ titles_and_contents(extract_chapters(text))
                 = titles_and_contents(data.chapterList)
           /\ op = "parsed"
                 => titles_and_contents(chapterList)
                       = titles_and_contents(data.chapterList)

\* C28: the title extract_title reads from the file an update saved is the
\* title of the update's data, and so is the one a parse of the saved file
\* returns.
C28_TitleRoundTrip ==
    FileSaved
        => /\ extract_title(text) = data.title
           /\ op = "parsed" => title = data.title

\* backup_file has copied the content the target file had when the update
\* came, and the target file still has it
BackupComplete ==
    /\ Len(backups) > 0
    /\ backups[Len(backups)] = before
    /\ text = before

\* C29: save_novel_file opens the target file for writing only after
\* backup_file has copied it, and when backup_file fails update_novel
\* fails with the content of the target file unchanged.
C29_BackupBeforeOverwrite ==
    /\ [][(pc # 0 /\ SaveSteps[pc] = "open" /\ pc' # pc) => BackupComplete]_vars
    /\ []((response.handler = "update" /\ response.detail = "backup_file")
             => /\ response.status = 500
                /\ pc = 0
                /\ text = before)

\* an update has overwritten a file that had content, which the last backup
\* holds
C29_Witness ==
    /\ FileSaved
    /\ before # <<>>
    /\ text # before
    /\ backups[Len(backups)] = before

\* C30: upload_novel answers a file whose name does not end in '.md' with
\* status 400, and stores no file.
C30_UploadRejected ==
    (response.handler = "upload" /\ ~endswith(response.file, MarkdownSuffix))
        => /\ response.status = 400
           /\ response.file \notin uploads

----------------------------------------------------------------------------
(* Properties of the interleaved invocations.                              *)

\* the invocation c has ended
Ended(c) == calls[c].state \in {"returned", "raised"}

\* C24: every invocation, whatever runs between its statements, ends as the
\* same call ends when it runs alone; no step of one invocation changes the
\* local text of another, and none changes the attributes of the shared
\* instance.
C24_Stateless ==
    /\ [](\A c \in Callers :
            Ended(c) => calls[c].result
                           = alone(calls[c].fn, calls[c].text, calls[c].options))
    /\ [](instance = InitialInstance)
    /\ [][\A c \in Callers :
            calls'[c] = calls[c] => frames'[frame_of(c)] = frames[frame_of(c)]]_vars

\* two invocations with different texts ran at the same time and both have
\* returned, one of them a smart_strip and the other a get_stats
C24_Witness ==
    \E c, e \in Callers :
        /\ calls[c].state = "returned"
        /\ calls[e].state = "returned"
        /\ calls[c].fn = "smart_strip"
        /\ calls[e].fn = "get_stats"
        /\ calls[c].text # calls[e].text

====
